---- MODULE Spec2Model ----
(***************************************************************************)
(* Flux (Kora Rent Guardian): the discovery / judgment / reclamation       *)
(* pipeline of src/src/lib/scanner.ts, the Judge (src/unnamed/part_003)    *)
(* and src/src/lib/executioner.ts, over the durable store (Prisma tables   *)
(* SponsoredAccount, ActivityLog, Settings, Whitelist) and the ledger.     *)
(*                                                                         *)
(* Units.  The code stores balances in SOL (lamports / LAMPORTS_PER_SOL)   *)
(* and asks the ledger in lamports.  Every amount of the model is the      *)
(* exact quantity counted in lamports, so balance <= TX_FEE_SOL reads      *)
(* balance <= TX_FEE_LAMPORTS and balance > rentExemptMin * 1.01 reads     *)
(* 100 * balance > 101 * rentExemptMin.                                    *)
(* Time is counted in days; Date.now() is the variable now.                *)
(*                                                                         *)
(* Every await of the code (a store call, a ledger call) may throw: the    *)
(* throwing outcome is one disjunct of the step that makes the call.       *)
(* A handler is cut into steps only where it awaits the ledger or where    *)
(* the claims need the intermediate state; consecutive store calls of one  *)
(* handler form one step, with the throw between them as an outcome.       *)
(***************************************************************************)
EXTENDS Integers, Sequences, FiniteSets, TLC

\* ------------------------------------------------------------------ bounds
\* How many times the clock may jump.
MaxTicks == 1
\* Activity Log entries the model lets the store hold.
MaxLog == 1
\* Lamports a user deposits on top of the rent floor.
UserDeposit == 1000000
\* Times judgeAccount is run on one set of arguments.
MaxRuns == 2

\* ------------------------------------------------------- program constants
TX_FEE_LAMPORTS == 5000
DEFAULT_MIN_AGE_DAYS == 30
\* USER_FUND_TOLERANCE = 1.01 as the fraction TOLERANCE_NUM / TOLERANCE_DEN
TOLERANCE_NUM == 101
TOLERANCE_DEN == 100
\* determineInitialStatus: balance > rentExemptMin * 1.5, as 3 / 2
INITIAL_NUM == 3
INITIAL_DEN == 2
\* 0.00089088 SOL
DEFAULT_RENT_EXEMPT_MINIMUM == 890880
\* 0.00203928 SOL: the rent floor the ledger reports for a sponsored account
RENT_MINIMUM == 2039280

\* ---------------------------------------------------------------- universe
Addr == {"a1", "a2"}
Callers == {"u1", "u2", "b"}
NoRecord == [status |-> "NONE"]
\* null: no row, no value
Absent == 0 - 1
NoResult == [success |-> FALSE, mode |-> "NONE", amount |-> 0, error |-> "PENDING", tx |-> "none"]

Max(x, y) == IF x >= y THEN x ELSE y

VARIABLES
    now,        \* Date.now(), in days
    ticks,      \* clock jumps so far
    chain,      \* ledger: lamports held by each address (0: closed or absent)
    born,       \* ledger: blockTime of the sponsor's createAccount for each address, Absent if none
    hasKey,     \* config.operatorPrivateKey is set
    accounts,   \* store: SponsoredAccount rows by address
    log,        \* store: ActivityLog rows, oldest first
    settings,   \* store: Settings rows, key -> value or Absent
    whitelist,  \* store: Whitelist addresses
    rc,         \* reclaimAccount calls, by caller
    bt,         \* reclaimAllEligible call
    ja,         \* judgeAllAccounts call
    sc,         \* scanForSponsoredAccounts call
    jc,         \* judgeAccount calls on one set of arguments
    kr,         \* reclaimAccount under two credentials, on the same answers
    ge          \* getEligibleAccounts: the list last returned

vars == <<now, ticks, chain, born, hasKey, accounts, log, settings, whitelist, rc, bt, ja, sc, jc, kr, ge>>
ledgerVars == <<chain, born>>
storeVars == <<accounts, log, settings, whitelist>>

\* ------------------------------------------------------------------- Judge

JudgmentSettings(s) ==
    [minAgeDays |-> IF s["min_age_days"] # Absent THEN s["min_age_days"] ELSE DEFAULT_MIN_AGE_DAYS,
     dryRunMode |-> IF s["dry_run_mode"] # Absent THEN s["dry_run_mode"] = 1 ELSE TRUE]

\* settings.minAgeDays || DEFAULT_MIN_AGE_DAYS: 0 is falsy
EffectiveMinAge(js) == IF js.minAgeDays = 0 THEN DEFAULT_MIN_AGE_DAYS ELSE js.minAgeDays

\* A profit check that lets a balance equal to the fee through.
ProfitCheckFails_Strict(balance) == balance < TX_FEE_LAMPORTS

ProfitCheckFails(balance) == balance <= TX_FEE_LAMPORTS

\* A user fund check made with the Scanner's factor of 1.5.
UserFundCheckFails_Initial(balance, rentExemptMin) ==
    INITIAL_DEN * balance > INITIAL_NUM * rentExemptMin

\* balance > rentExemptMin * 1.01, on whole lamports: the quotient is
\* rounded down, which leaves the comparison as it is.
UserFundCheckFails(balance, rentExemptMin) ==
    balance > (TOLERANCE_NUM * rentExemptMin) \div TOLERANCE_DEN

\* An age check with the comparison turned round.
AgeCheckFails_Inverted(lastActivity, js, t) == (t - lastActivity) > EffectiveMinAge(js)

AgeCheckFails(lastActivity, js, t) == (t - lastActivity) < EffectiveMinAge(js)

WhitelistCheckFails(address, wl) == address \in wl

judgeAccount(address, account, js, wl, t) ==
    LET potentialRecovery == Max(0, account.balance - TX_FEE_LAMPORTS) IN
    IF ProfitCheckFails(account.balance)
    THEN [status |-> "SKIP", balance |-> account.balance, potentialRecovery |-> 0]
    ELSE IF UserFundCheckFails(account.balance, account.rentExemptMin)
    THEN [status |-> "PROTECTED", balance |-> account.balance, potentialRecovery |-> potentialRecovery]
    ELSE IF AgeCheckFails(account.lastActivity, js, t)
    THEN [status |-> "ACTIVE", balance |-> account.balance, potentialRecovery |-> potentialRecovery]
    ELSE IF WhitelistCheckFails(address, wl)
    THEN [status |-> "WHITELISTED", balance |-> account.balance, potentialRecovery |-> potentialRecovery]
    ELSE [status |-> "ELIGIBLE", balance |-> account.balance, potentialRecovery |-> potentialRecovery]

\* ------------------------------------------------------------------- state

IdleCall == [pc |-> "idle", addr |-> "a1", dryRun |-> TRUE, found |-> NoRecord,
             verdict |-> "NONE", recovery |-> 0, bal |-> Absent, amt |-> 0, result |-> NoResult,
             logged |-> <<>>, submitted |-> FALSE, submitBal |-> 0,
             confirmed |-> FALSE, marked |-> FALSE]
IdleBatch == [pc |-> "idle", dryRun |-> TRUE, queue |-> <<>>, selected |-> <<>>,
              results |-> <<>>, total |-> 0,
              successful |-> 0, failed |-> 0, totalReclaimed |-> 0]
IdleJudge == [pc |-> "idle", queue |-> <<>>, snap |-> [a \in Addr |-> NoRecord],
              js |-> JudgmentSettings([k \in {"min_age_days", "dry_run_mode"} |-> Absent]),
              wl |-> {}, total |-> 0,
              counts |-> [s \in {"ELIGIBLE", "PROTECTED", "ACTIVE", "SKIP", "WHITELISTED"} |-> 0]]
\* page, failed, before, error and route record what the call met: the
\* addresses of the signature page, those whose transaction could not be
\* fetched or parsed, the rows before the call, what made it fail, and
\* whether POST /api/scan made the call.
IdleScan == [pc |-> "idle", queue |-> <<>>, newCount |-> 0, updatedCount |-> 0,
             success |-> FALSE, logged |-> 0,
             page |-> {}, failed |-> {}, before |-> [a \in Addr |-> NoRecord],
             error |-> "none", route |-> FALSE]
\* No judgeAccount call under study: no arguments, no results.
NoJudgeCalls == [address |-> "a1", account |-> NoRecord,
                 settings |-> JudgmentSettings([k \in {"min_age_days", "dry_run_mode"} |-> Absent]),
                 whitelist |-> {}, runs |-> <<>>]

\* No pair of runs under study: no credentials, no outcomes.
NoKeyRuns == [keys |-> <<>>, dryRun |-> TRUE, status |-> "NONE", answers |-> <<>>,
              outcomes |-> <<>>]

\* getEligibleAccounts has not been called.
NoList == [pc |-> "idle", eligible |-> {}]

Init ==
    /\ now = 0
    /\ ticks = 0
    /\ chain = [a \in Addr |-> 0]
    /\ born = [a \in Addr |-> Absent]
    /\ hasKey \in BOOLEAN
    /\ accounts = [a \in Addr |-> NoRecord]
    /\ log = <<>>
    /\ settings = [k \in {"min_age_days", "dry_run_mode"} |-> Absent]
    /\ whitelist = {}
    /\ rc = [c \in Callers |-> IdleCall]
    /\ bt = IdleBatch
    /\ ja = IdleJudge
    /\ sc = IdleScan
    /\ jc = NoJudgeCalls
    /\ kr = NoKeyRuns
    /\ ge = NoList

\* No handler is running.
Quiet ==
    /\ \A c \in Callers : rc[c].pc = "idle"
    /\ bt.pc = "idle"
    /\ ja.pc = "idle"
    /\ sc.pc = "idle"
    /\ ge.pc = "idle"

\* Handlers running that may still append to the Activity Log.
Appenders ==
    Cardinality({c \in Callers : rc[c].pc \notin {"idle", "done", "threw"}})
    + (IF sc.pc \in {"reconcile"} THEN 1 ELSE 0)

\* Room for k more entries; overlapping callers get MaxLog entries each.
LogRoom(k, overlap) ==
    Len(log) + Appenders + k <= (IF overlap THEN 2 * MaxLog ELSE MaxLog)

\* ------------------------------------------------------------- environment

\* The clock jumps by the default idle threshold, between handlers.
Tick ==
    /\ Quiet
    /\ ticks < MaxTicks
    /\ now' = now + DEFAULT_MIN_AGE_DAYS
    /\ ticks' = ticks + 1
    /\ UNCHANGED <<ledgerVars, hasKey, storeVars, rc, bt, ja, sc, jc, kr, ge>>

\* The sponsor pays for the creation of address a at the rent floor
\* (the sponsor's transactions are those of day 0).
SponsorCreate(a) ==
    /\ now = 0
    /\ born[a] = Absent
    /\ chain[a] = 0
    /\ chain' = [chain EXCEPT ![a] = RENT_MINIMUM]
    /\ born' = [born EXCEPT ![a] = now]
    /\ UNCHANGED <<now, ticks, hasKey, storeVars, rc, bt, ja, sc, jc, kr, ge>>

\* Someone funds a closed address again, at the rent floor.
Refunded(a) ==
    /\ born[a] # Absent
    /\ chain[a] = 0
    /\ chain' = [chain EXCEPT ![a] = RENT_MINIMUM]
    /\ UNCHANGED <<now, ticks, born, hasKey, storeVars, rc, bt, ja, sc, jc, kr, ge>>

\* The operator prunes the Activity Log (outside the core).
PruneLog ==
    /\ Quiet
    /\ log # <<>>
    /\ log' = <<>>
    /\ UNCHANGED <<now, ticks, ledgerVars, hasKey, accounts, settings, whitelist, rc, bt, ja, sc, jc, kr, ge>>

\* The user deposits funds of their own.
UserDeposits(a) ==
    /\ chain[a] = RENT_MINIMUM
    /\ chain' = [chain EXCEPT ![a] = chain[a] + UserDeposit]
    /\ UNCHANGED <<now, ticks, born, hasKey, storeVars, rc, bt, ja, sc, jc, kr, ge>>

\* The user deposits once more: the balance passes 1.5 times the rent floor.
UserTopsUp(a) ==
    /\ chain[a] = RENT_MINIMUM + UserDeposit
    /\ chain' = [chain EXCEPT ![a] = chain[a] + UserDeposit]
    /\ UNCHANGED <<now, ticks, born, hasKey, storeVars, rc, bt, ja, sc, jc, kr, ge>>

\* Some other actor empties the account: the ledger closes it.
LedgerCloses(a) ==
    /\ chain[a] > 0
    /\ chain' = [chain EXCEPT ![a] = 0]
    /\ UNCHANGED <<now, ticks, born, hasKey, storeVars, rc, bt, ja, sc, jc, kr, ge>>

\* ------------------------------------------------------------- Executioner

Mode(dryRun) == IF dryRun THEN "SIMULATION" ELSE "REAL"

LogEntry(action, account, amount, mode, tx, reason) ==
    [action |-> action, account |-> account, amount |-> amount, mode |-> mode,
     tx |-> tx, reason |-> reason]

Failure(mode, error) ==
    [success |-> FALSE, mode |-> mode, amount |-> 0, error |-> error, tx |-> "none"]

Success(mode, amount, tx) ==
    [success |-> TRUE, mode |-> mode, amount |-> amount, error |-> "none", tx |-> tx]

Return(r, result) == [r EXCEPT !.pc = "done", !.result = result]

\* A handler may start: alone, or (overlap) while the others are at an await.
MayStart(overlap) ==
    IF overlap
    THEN /\ \A c \in Callers : rc[c].pc \notin {"done", "threw"}
         /\ bt.pc \notin {"done", "threw"}
         /\ ja.pc \notin {"done", "threw"}
         /\ sc.pc # "done"
    ELSE Quiet

\* A gate that lets a whitelisted verdict through.
IsEligible_OrWhitelisted(judgment) == judgment.status \in {"ELIGIBLE", "WHITELISTED"}

\* if (judgment.status !== 'ELIGIBLE'): the revalidation gate
IsEligible(judgment) == judgment.status = "ELIGIBLE"

\* A credential gate that is always open.
KeyConfigured_Always == TRUE

\* if (!config.operatorPrivateKey): the credential gate
KeyConfigured == hasKey

\* The entry of a skip on verdict.
SkipEntry(a, account, dryRun, judgment) ==
    LogEntry("SKIP", a, account.balance, Mode(dryRun), "none", judgment.status)

\* A simulated reclaim logged for the whole balance, fee included.
SimulationEntry_Balance(a, judgment) ==
    LogEntry("RECLAIM", a, judgment.balance, "SIMULATION", "none", "Simulation")

\* The entry of a simulated reclaim.
SimulationEntry(a, judgment) ==
    LogEntry("RECLAIM", a, judgment.potentialRecovery, "SIMULATION", "none", "Simulation")

\* The entry the catch block writes.
ErrorEntry(a, dryRun) ==
    LogEntry("SKIP", a, 0, Mode(dryRun), "none", "Error")

\* The catch block of reclaimAccount, entered with the call record r:
\* it appends the SKIP entry with the error text and returns failure,
\* unless that activityLog.create throws too and the error escapes.
Caught(c, r) ==
    \/ LET e == ErrorEntry(r.addr, r.dryRun) IN
       /\ log' = Append(log, e)
       /\ rc' = [rc EXCEPT ![c] =
                   Return([r EXCEPT !.logged = Append(r.logged, e)],
                          Failure(Mode(r.dryRun), "Error"))]
    \/ /\ log' = log
       /\ rc' = [rc EXCEPT ![c] = [r EXCEPT !.pc = "threw"]]

\* reclaimAccount up to its first ledger call: load the record, re-run the
\* Judge, and take the skip, simulation or missing-key exit.
ReclaimValidate(c, a, dryRun, overlap) ==
    /\ rc[c].pc = "idle"
    /\ IF c = "b"
       THEN bt.pc = "loop" /\ bt.queue # <<>> /\ a = Head(bt.queue) /\ dryRun = bt.dryRun
       ELSE MayStart(overlap) /\ bt.pc = "idle" /\ LogRoom(1, overlap)
    /\ LET r0 == [IdleCall EXCEPT !.addr = a, !.dryRun = dryRun] IN
       \/ \* findUnique, getJudgmentSettings or whitelist.findMany throws
          Caught(c, r0)
       \/ /\ accounts[a] = NoRecord
          /\ rc' = [rc EXCEPT ![c] = Return(r0, Failure(Mode(dryRun), "ACCOUNT_NOT_FOUND"))]
          /\ log' = log
       \/ /\ accounts[a] # NoRecord
          /\ LET judgment == judgeAccount(a, accounts[a], JudgmentSettings(settings), whitelist, now)
                 r1 == [r0 EXCEPT !.found = accounts[a], !.verdict = judgment.status,
                                  !.recovery = judgment.potentialRecovery]
             IN
             \/ /\ ~IsEligible(judgment)
                /\ \/ LET e == SkipEntry(a, accounts[a], dryRun, judgment) IN
                      /\ log' = Append(log, e)
                      /\ rc' = [rc EXCEPT ![c] =
                                  Return([r1 EXCEPT !.logged = <<e>>],
                                         Failure(Mode(dryRun), judgment.status))]
                   \/ Caught(c, r1)
             \/ /\ IsEligible(judgment)
                /\ dryRun
                /\ \/ LET e == SimulationEntry(a, judgment) IN
                      /\ log' = Append(log, e)
                      /\ rc' = [rc EXCEPT ![c] =
                                  Return([r1 EXCEPT !.logged = <<e>>],
                                         Success("SIMULATION", judgment.potentialRecovery, "none"))]
                   \/ Caught(c, r1)
             \/ /\ IsEligible(judgment)
                /\ ~dryRun
                /\ ~KeyConfigured
                /\ rc' = [rc EXCEPT ![c] = Return(r1, Failure("SIMULATION", "NO_PRIVATE_KEY"))]
                /\ log' = log
             \/ /\ IsEligible(judgment)
                /\ ~dryRun
                /\ KeyConfigured
                /\ rc' = [rc EXCEPT ![c] = [r1 EXCEPT !.pc = "getbal"]]
                /\ log' = log
    /\ UNCHANGED <<now, ticks, ledgerVars, hasKey, accounts, settings, whitelist, bt, ja, sc, jc, kr, ge>>

\* transferAmount: what is left of the balance once the fee is set aside.
TransferAmount(balanceLamports) == balanceLamports - TX_FEE_LAMPORTS

\* A test that lets a transfer of nothing through.
TooLowForFee_Negative(transferAmount) == transferAmount < 0

\* transferAmount <= 0: the balance does not cover more than the fee.
TooLowForFee(transferAmount) == transferAmount <= 0

\* connection.getBalance, and the exits that follow it. bal keeps the
\* balance the ledger reported, Absent while it has reported none.
ReclaimGetBalance(c) ==
    /\ rc[c].pc = "getbal"
    /\ LET r == rc[c]
           a == r.addr
           balanceLamports == chain[a]
           transferAmount == TransferAmount(balanceLamports)
       IN
       \/ \* getBalance throws
          /\ Caught(c, r)
          /\ accounts' = accounts
       \/ \* account already empty: sponsoredAccount.update
          /\ balanceLamports = 0
          /\ accounts[a] # NoRecord
          /\ accounts' = [accounts EXCEPT ![a] = [@ EXCEPT !.status = "RECLAIMED", !.balance = 0]]
          /\ rc' = [rc EXCEPT ![c] = Return([r EXCEPT !.bal = 0, !.marked = TRUE],
                                            Success("REAL", 0, "none"))]
          /\ log' = log
       \/ \* account already empty and the update throws
          /\ balanceLamports = 0
          /\ Caught(c, [r EXCEPT !.bal = 0])
          /\ accounts' = accounts
       \/ /\ balanceLamports # 0
          /\ TooLowForFee(transferAmount)
          /\ rc' = [rc EXCEPT ![c] = Return([r EXCEPT !.bal = balanceLamports],
                                            Failure("REAL", "INSUFFICIENT_BALANCE"))]
          /\ log' = log
          /\ accounts' = accounts
       \/ /\ balanceLamports # 0
          /\ ~TooLowForFee(transferAmount)
          /\ rc' = [rc EXCEPT ![c] = [r EXCEPT !.pc = "send", !.bal = balanceLamports,
                                                !.amt = transferAmount]]
          /\ log' = log
          /\ accounts' = accounts
    /\ UNCHANGED <<now, ticks, ledgerVars, hasKey, settings, whitelist, bt, ja, sc, jc, kr, ge>>

\* sendAndConfirmTransaction: the ledger confirms the transfer of amt
\* lamports out of the target account, or the call throws.
ReclaimSend(c) ==
    /\ rc[c].pc = "send"
    /\ LET r == [rc[c] EXCEPT !.submitted = TRUE, !.submitBal = chain[rc[c].addr]]
           a == r.addr
       IN
       \/ /\ chain[a] >= r.amt
          /\ chain' = [chain EXCEPT ![a] = chain[a] - r.amt]
          /\ rc' = [rc EXCEPT ![c] = [r EXCEPT !.pc = "mark", !.confirmed = TRUE]]
          /\ log' = log
       \/ /\ Caught(c, r)
          /\ chain' = chain
    /\ UNCHANGED <<now, ticks, born, hasKey, accounts, settings, whitelist, bt, ja, sc, jc, kr, ge>>

\* An update without its where clause: every record is marked.
MarkReclaimed_Every(a, t) ==
    [x \in Addr |-> IF accounts[x] = NoRecord THEN NoRecord
                    ELSE [accounts[x] EXCEPT !.status = "RECLAIMED", !.balance = 0,
                                             !.lastActivity = t]]

\* sponsoredAccount.update where address: RECLAIMED, balance 0, lastActivity now
MarkReclaimed(a, t) ==
    [accounts EXCEPT ![a] = [@ EXCEPT !.status = "RECLAIMED", !.balance = 0,
                                      !.lastActivity = t]]

\* After confirmation: sponsoredAccount.update, then activityLog.create.
ReclaimMark(c) ==
    /\ rc[c].pc = "mark"
    /\ LET r == rc[c]
           a == r.addr
           e == LogEntry("RECLAIM", a, r.amt, "REAL", "tx", "Success")
           marked == MarkReclaimed(a, now)
       IN
       \/ \* the update throws
          /\ Caught(c, r)
          /\ accounts' = accounts
       \/ /\ accounts[a] # NoRecord
          /\ accounts' = marked
          /\ log' = Append(log, e)
          /\ rc' = [rc EXCEPT ![c] =
                      Return([r EXCEPT !.marked = TRUE, !.logged = <<e>>],
                             Success("REAL", r.amt, "tx"))]
       \/ \* the update succeeds and activityLog.create throws
          /\ accounts[a] # NoRecord
          /\ accounts' = marked
          /\ Caught(c, [r EXCEPT !.marked = TRUE])
    /\ UNCHANGED <<now, ticks, ledgerVars, hasKey, settings, whitelist, bt, ja, sc, jc, kr, ge>>

\* The caller of reclaimAccount (the reclaim route) has its result.
ReclaimReturn(c) ==
    /\ c # "b"
    /\ rc[c].pc \in {"done", "threw"}
    /\ rc' = [rc EXCEPT ![c] = IdleCall]
    /\ UNCHANGED <<now, ticks, ledgerVars, hasKey, storeVars, bt, ja, sc, jc, kr, ge>>

\* Addresses in the order findMany returns their rows.
AddrOrder == <<"a1", "a2">>
RowsOf(S) == SelectSeq(AddrOrder, LAMBDA a : a \in S)

\* The rows findMany returned, as reclaimAllEligible holds them.
SelectedRows(rows) ==
    [i \in 1..Len(rows) |-> [address |-> rows[i], balance |-> accounts[rows[i]].balance]]

\* totalReclaimed kept as the last amount instead of the sum.
Accumulate_Last(totalReclaimed, result) ==
    IF result.success THEN result.amount ELSE totalReclaimed

\* if (result.success) totalReclaimed += result.amount
Accumulate(totalReclaimed, result) ==
    totalReclaimed + (IF result.success THEN result.amount ELSE 0)

\* reclaimAllEligible: findMany where status = ELIGIBLE.  The bound on the
\* log is on the log the batch finds: its own entries come after it.
BatchBegin(dryRun, overlap) ==
    /\ bt.pc = "idle"
    /\ MayStart(overlap)
    /\ LET eligible == {a \in Addr : accounts[a] # NoRecord /\ accounts[a].status = "ELIGIBLE"} IN
       \/ /\ LogRoom(IF eligible = {} THEN 0 ELSE 1, overlap)
          /\ bt' = [IdleBatch EXCEPT !.pc = IF eligible = {} THEN "done" ELSE "loop",
                                     !.dryRun = dryRun,
                                     !.queue = RowsOf(eligible),
                                     !.selected = SelectedRows(RowsOf(eligible)),
                                     !.total = Cardinality(eligible)]
       \/ \* findMany throws
          bt' = [IdleBatch EXCEPT !.pc = "threw"]
    /\ UNCHANGED <<now, ticks, ledgerVars, hasKey, storeVars, rc, ja, sc, jc, kr, ge>>

\* The loop body after reclaimAccount has returned (or thrown).
BatchCollect ==
    /\ bt.pc = "loop"
    /\ \/ /\ rc["b"].pc = "done"
          /\ LET result == rc["b"].result
                 rest == Tail(bt.queue)
             IN bt' = [bt EXCEPT !.queue = rest,
                                 !.results = Append(@, [address |-> rc["b"].addr,
                                                        success |-> result.success,
                                                        amount |-> result.amount,
                                                        error |-> result.error]),
                                 !.successful = @ + (IF result.success THEN 1 ELSE 0),
                                 !.failed = @ + (IF result.success THEN 0 ELSE 1),
                                 !.totalReclaimed = Accumulate(@, result),
                                 !.pc = IF rest = <<>> THEN "done" ELSE "loop"]
       \/ /\ rc["b"].pc = "threw"
          /\ bt' = [bt EXCEPT !.pc = "threw"]
    /\ rc' = [rc EXCEPT !["b"] = IdleCall]
    /\ UNCHANGED <<now, ticks, ledgerVars, hasKey, storeVars, ja, sc, jc, kr, ge>>

BatchReturn ==
    /\ bt.pc \in {"done", "threw"}
    /\ bt' = IdleBatch
    /\ UNCHANGED <<now, ticks, ledgerVars, hasKey, storeVars, rc, ja, sc, jc, kr, ge>>

\* ------------------------------------------------------------- statistics

\* A filter that takes the RECLAIM entries of both modes.
IsRealReclaim_AnyMode(e) == e.action = "RECLAIM"

\* activityLog.findMany where action: 'RECLAIM', mode: 'REAL'
IsRealReclaim(e) == e.action = "RECLAIM" /\ e.mode = "REAL"

\* for (const log of reclaimLogs) totalRecovered += log.amount
RECURSIVE SumAmounts(_)
SumAmounts(entries) ==
    IF entries = <<>> THEN 0 ELSE Head(entries).amount + SumAmounts(Tail(entries))

\* The loop over the rows: potentialRecovery of the ELIGIBLE ones.
RECURSIVE SumEligible(_)
SumEligible(rows) ==
    IF rows = <<>> THEN 0
    ELSE (IF accounts[Head(rows)].status = "ELIGIBLE"
          THEN Max(0, accounts[Head(rows)].balance - TX_FEE_LAMPORTS)
          ELSE 0) + SumEligible(Tail(rows))

CountStatus(status) ==
    Cardinality({a \in Addr : accounts[a] # NoRecord /\ accounts[a].status = status})

getReclaimStats ==
    [totalRecovered |-> SumAmounts(SelectSeq(log, IsRealReclaim)),
     potentialRecovery |-> SumEligible(RowsOf({a \in Addr : accounts[a] # NoRecord})),
     eligibleCount |-> CountStatus("ELIGIBLE"),
     protectedCount |-> CountStatus("PROTECTED"),
     activeCount |-> CountStatus("ACTIVE")]

\* ------------------------------------------------------ Judge, batch pass

StatusCounts == [s \in {"ELIGIBLE", "PROTECTED", "ACTIVE", "SKIP", "WHITELISTED"} |-> 0]

\* A pass that loads every row, the RECLAIMED ones too.
JudgedRows_All == {a \in Addr : accounts[a] # NoRecord}

\* findMany where status: { not: 'RECLAIMED' }
JudgedRows == {a \in Addr : accounts[a] # NoRecord /\ accounts[a].status # "RECLAIMED"}

\* judgeAllAccounts: load settings, whitelist and every row that is not RECLAIMED.
JudgeAllBegin(overlap) ==
    /\ ja.pc = "idle"
    /\ MayStart(overlap)
    /\ LET rows == JudgedRows IN
       \/ ja' = [pc |-> IF rows = {} THEN "done" ELSE "loop",
                 queue |-> RowsOf(rows), snap |-> accounts,
                 js |-> JudgmentSettings(settings), wl |-> whitelist,
                 total |-> Cardinality(rows), counts |-> StatusCounts]
       \/ \* a store read throws: the error leaves judgeAllAccounts
          ja' = [IdleJudge EXCEPT !.pc = "threw"]
    /\ UNCHANGED <<now, ticks, ledgerVars, hasKey, storeVars, rc, bt, sc, jc, kr, ge>>

\* One turn of the loop: judge the loaded row, write the status.
JudgeAllStep ==
    /\ ja.pc = "loop"
    /\ LET a == Head(ja.queue)
           judgment == judgeAccount(a, ja.snap[a], ja.js, ja.wl, now)
           rest == Tail(ja.queue)
       IN
       \/ /\ accounts[a] # NoRecord
          /\ accounts' = [accounts EXCEPT ![a] = [@ EXCEPT !.status = judgment.status]]
          /\ ja' = [ja EXCEPT !.queue = rest,
                              !.counts = [@ EXCEPT ![judgment.status] = @ + 1],
                              !.pc = IF rest = <<>> THEN "done" ELSE "loop"]
       \/ \* sponsoredAccount.update throws: the error leaves judgeAllAccounts
          /\ accounts' = accounts
          /\ ja' = [ja EXCEPT !.pc = "threw"]
    /\ UNCHANGED <<now, ticks, ledgerVars, hasKey, log, settings, whitelist, rc, bt, sc, jc, kr, ge>>

JudgeAllReturn ==
    /\ ja.pc \in {"done", "threw"}
    /\ ja' = IdleJudge
    /\ UNCHANGED <<now, ticks, ledgerVars, hasKey, storeVars, rc, bt, sc, jc, kr, ge>>

\* Values the operator gives min_age_days.
MinAgeChoices == {0, 2 * DEFAULT_MIN_AGE_DAYS}

updateJudgmentSetting(key, value) ==
    /\ Quiet
    /\ settings[key] # value
    /\ settings' = [settings EXCEPT ![key] = value]
    /\ UNCHANGED <<now, ticks, ledgerVars, hasKey, accounts, log, whitelist, rc, bt, ja, sc, jc, kr, ge>>

\* whitelist.upsert, then sponsoredAccount.updateMany where address.
addToWhitelist(a) ==
    /\ Quiet
    /\ whitelist' = whitelist \cup {a}
    /\ \/ accounts' = [accounts EXCEPT ![a] =
                          IF @ = NoRecord THEN @ ELSE [@ EXCEPT !.status = "WHITELISTED"]]
       \/ \* updateMany throws after the upsert
          /\ a \notin whitelist
          /\ accounts' = accounts
    /\ UNCHANGED <<now, ticks, ledgerVars, hasKey, log, settings, rc, bt, ja, sc, jc, kr, ge>>

removeFromWhitelist(a) ==
    /\ Quiet
    /\ a \in whitelist
    /\ whitelist' = whitelist \ {a}
    /\ UNCHANGED <<now, ticks, ledgerVars, hasKey, accounts, log, settings, rc, bt, ja, sc, jc, kr, ge>>

\* ----------------------------------------------------------------- Scanner

\* getAccountCurrentState when the ledger answers.
LedgerState(a) ==
    IF chain[a] = 0
    THEN [balance |-> 0, rentExemptMin |-> DEFAULT_RENT_EXEMPT_MINIMUM, exists |-> FALSE]
    ELSE [balance |-> chain[a], rentExemptMin |-> RENT_MINIMUM, exists |-> TRUE]

\* getAccountCurrentState when getAccountInfo or
\* getMinimumBalanceForRentExemption throws: its catch block.
FailedState ==
    [balance |-> 0, rentExemptMin |-> DEFAULT_RENT_EXEMPT_MINIMUM, exists |-> FALSE]

getAccountCurrentState(a) == {LedgerState(a), FailedState}

determineInitialStatus(state) ==
    IF ~state.exists \/ state.balance = 0 THEN "RECLAIMED"
    ELSE IF INITIAL_DEN * state.balance > INITIAL_NUM * state.rentExemptMin THEN "PROTECTED"
    ELSE "ACTIVE"

\* Status written by the update of an existing row.
UpdatedStatus(state, existing) ==
    IF state.balance = 0 THEN "RECLAIMED" ELSE existing.status

\* The sponsor's page of signatures: one createAccount per created address.
Page == {a \in Addr : born[a] # Absent}

\* A parse loop that gives up the page at the first failed transaction.
Discovered_AbortOnFailure(page, failed) == IF failed = {} THEN page ELSE {}

\* discoveredAccounts: the accounts of the transactions of the page whose
\* fetch and parse did not throw.
Discovered(page, failed) == page \ failed

ScanDone(success, logged, error) ==
    [sc EXCEPT !.pc = "done", !.success = success, !.logged = logged,
               !.error = error, !.queue = <<>>]

\* scanForSponsoredAccounts up to the reconciliation loop, entered with the
\* call record s0: fetch the page, parse each transaction (a transaction
\* whose fetch or parse throws is skipped).
ScanFetch(s0, room) ==
    \/ \* getSignaturesForAddress throws
       sc' = [s0 EXCEPT !.pc = "done", !.success = FALSE, !.error = "history"]
    \/ /\ Page = {}
       /\ sc' = [s0 EXCEPT !.pc = "done", !.success = TRUE]
    \/ /\ Page # {}
       /\ room
       /\ \E failed \in SUBSET Page :
             sc' = [s0 EXCEPT !.pc = "reconcile", !.page = Page, !.failed = failed,
                              !.queue = RowsOf(Discovered(Page, failed))]

\* scanForSponsoredAccounts called on its own.
ScanBegin(overlap) ==
    /\ sc.pc = "idle"
    /\ MayStart(overlap)
    /\ ScanFetch([IdleScan EXCEPT !.before = accounts], LogRoom(1, overlap))
    /\ UNCHANGED <<now, ticks, ledgerVars, hasKey, storeVars, rc, bt, ja, jc, kr, ge>>

\* One turn of the reconciliation loop.
ScanReconcile ==
    /\ sc.pc = "reconcile"
    /\ sc.queue # <<>>
    /\ LET a == Head(sc.queue)
           existing == accounts[a]
       IN
       \/ \E currentState \in getAccountCurrentState(a) :
             /\ accounts' = [accounts EXCEPT ![a] =
                   IF existing # NoRecord
                   THEN [existing EXCEPT !.balance = currentState.balance,
                                         !.lastActivity = now,
                                         !.status = UpdatedStatus(currentState, existing)]
                   ELSE [status |-> determineInitialStatus(currentState),
                         balance |-> currentState.balance,
                         rentExemptMin |-> currentState.rentExemptMin,
                         lastActivity |-> born[a],
                         detectedAt |-> now]]
             /\ sc' = [sc EXCEPT !.queue = Tail(sc.queue),
                                 !.newCount = @ + (IF existing = NoRecord THEN 1 ELSE 0),
                                 !.updatedCount = @ + (IF existing = NoRecord THEN 0 ELSE 1)]
       \/ \* findUnique, update or create throws: the outer catch returns failure
          /\ accounts' = accounts
          /\ sc' = ScanDone(FALSE, 0, "store")
    /\ UNCHANGED <<now, ticks, ledgerVars, hasKey, log, settings, whitelist, rc, bt, ja, jc, kr, ge>>

\* After the loop: append the SCAN entry, count the rows, return.
ScanFinish ==
    /\ sc.pc = "reconcile"
    /\ sc.queue = <<>>
    /\ LET e == LogEntry("SCAN", "operator", 0, Mode(~hasKey), "none", "Scan complete") IN
       \/ /\ log' = Append(log, e)
          /\ sc' = ScanDone(TRUE, 1, "none")
       \/ \* activityLog.create throws
          /\ log' = log
          /\ sc' = ScanDone(FALSE, 0, "log")
       \/ \* sponsoredAccount.count throws after the entry is written
          /\ log' = Append(log, e)
          /\ sc' = ScanDone(FALSE, 1, "count")
    /\ UNCHANGED <<now, ticks, ledgerVars, hasKey, accounts, settings, whitelist, rc, bt, ja, jc, kr, ge>>

ScanReturn ==
    /\ sc.pc = "done"
    /\ sc' = IdleScan
    /\ UNCHANGED <<now, ticks, ledgerVars, hasKey, storeVars, rc, bt, ja, jc, kr, ge>>

\* ------------------------------------------------------ POST /api/scan

\* deleteMany: no SponsoredAccount row is left.
NoRows == [a \in Addr |-> NoRecord]

\* isDryRunEnabled: setting ? setting.value === 'true' : true
isDryRunEnabled ==
    IF settings["dry_run_mode"] # Absent THEN settings["dry_run_mode"] = 1 ELSE TRUE

\* The branch POST /api/scan takes: config.isMockMode ||
\* !config.operatorPublicKey || dryRunSetting?.value === 'true'
\* (the operator's public key is configured: a scan needs it).
IsSimulationScan == ~hasKey \/ settings["dry_run_mode"] = 1

\* seedDemoData appends its entry to the log.
SeedEntry == LogEntry("SCAN", "-", 0, "SIMULATION", "none", "Demo data restored")

\* A seeder that clears the log before it writes its entry.
SeedLog_Cleared(l) == <<SeedEntry>>

SeedLog(l) == Append(l, SeedEntry)

\* POST /api/scan up to the call of scanForSponsoredAccounts.  The demo rows
\* of seedDemoData have addresses of their own, outside Addr: of the
\* simulation branch the model keeps the deletion of every row and the entry.
ScanPost ==
    /\ sc.pc = "idle"
    /\ MayStart(FALSE)
    /\ LogRoom(1, TRUE)
    /\ LET posted == [IdleScan EXCEPT !.route = TRUE, !.before = accounts] IN
       \/ \* settings.findUnique or deleteMany throws: 500, nothing written
          /\ accounts' = accounts
          /\ log' = log
          /\ sc' = [posted EXCEPT !.pc = "done", !.error = "store"]
       \/ /\ IsSimulationScan
          /\ accounts' = NoRows
          /\ \/ /\ log' = SeedLog(log)
                /\ sc' = [posted EXCEPT !.pc = "done", !.success = TRUE, !.logged = 1]
             \/ \* createMany or activityLog.create throws: 500
                /\ log' = log
                /\ sc' = [posted EXCEPT !.pc = "done", !.error = "store"]
       \/ /\ ~IsSimulationScan
          /\ accounts' = NoRows
          /\ log' = log
          /\ sc' = [posted EXCEPT !.pc = "posted"]
    /\ UNCHANGED <<now, ticks, ledgerVars, hasKey, settings, whitelist, rc, bt, ja, jc, kr, ge>>

\* The real branch goes on: scanForSponsoredAccounts(operatorKey).
ScanPostScan ==
    /\ sc.pc = "posted"
    /\ ScanFetch(sc, TRUE)
    /\ UNCHANGED <<now, ticks, ledgerVars, hasKey, storeVars, rc, bt, ja, jc, kr, ge>>

\* ------------------------------------------------------------ specification

\* The ledger and the clock, for the addresses of A.
Environment(A) ==
    \/ Tick
    \/ PruneLog
    \/ \E a \in A : SponsorCreate(a)
    \/ \E a \in A : Refunded(a)
    \/ \E a \in A : UserDeposits(a)
    \/ \E a \in A : UserTopsUp(a)
    \/ \E a \in A : LedgerCloses(a)

\* reclaimAccount after validation, up to its return.
ReclaimWork ==
    \/ \E c \in Callers : ReclaimGetBalance(c)
    \/ \E c \in Callers : ReclaimSend(c)
    \/ \E c \in Callers : ReclaimMark(c)

ReclaimSteps ==
    \/ ReclaimWork
    \/ \E c \in Callers : ReclaimReturn(c)

JudgeSteps ==
    \/ JudgeAllStep
    \/ JudgeAllReturn

ScanSteps ==
    \/ ScanReconcile
    \/ ScanFinish
    \/ ScanReturn

Steps ==
    \/ ReclaimSteps
    \/ BatchCollect
    \/ BatchReturn
    \/ JudgeSteps
    \/ ScanSteps

\* One sponsored account; handlers run one at a time (the scheduling the
\* design assumes), the ledger moves at any time.
One == {"a1"}

Next ==
    \/ Environment(One)
    \/ \E a \in One : addToWhitelist(a)
    \/ \E a \in One : removeFromWhitelist(a)
    \/ \E c \in {"u1", "b"}, a \in One, dryRun \in BOOLEAN : ReclaimValidate(c, a, dryRun, FALSE)
    \/ \E dryRun \in BOOLEAN : BatchBegin(dryRun, FALSE)
    \/ JudgeAllBegin(FALSE)
    \/ ScanBegin(FALSE)
    \/ Steps

Spec == Init /\ [][Next]_vars

\* Two operators press Reclaim at once: their reclaimAccount calls in real
\* mode interleave at the awaits.  Scans and Judge passes still run alone.
NextRace ==
    \/ Tick
    \/ PruneLog
    \/ \E a \in One : SponsorCreate(a)
    \/ \E c \in {"u1", "u2"}, a \in One : ReclaimValidate(c, a, FALSE, TRUE)
    \/ JudgeAllBegin(FALSE)
    \/ ScanBegin(FALSE)
    \/ ScanPost
    \/ ScanPostScan
    \/ ReclaimSteps
    \/ JudgeSteps
    \/ ScanSteps

SpecRace == Init /\ [][NextRace]_vars

\* ------------------------------------------------- scans of two accounts

\* Two sponsored accounts, scanned through
\* scanForSponsoredAccounts or through POST /api/scan, and judged; the
\* operator switches dry_run_mode.
NextScan ==
    \/ Tick
    \/ PruneLog
    \/ \E a \in Addr : SponsorCreate(a)
    \/ \E v \in {0, 1} : updateJudgmentSetting("dry_run_mode", v)
    \/ ScanBegin(FALSE)
    \/ ScanPost
    \/ ScanPostScan
    \/ ScanSteps
    \/ JudgeAllBegin(FALSE)
    \/ JudgeSteps

SpecScan == Init /\ [][NextScan]_vars

\* ------------------------------------------------- the operator's settings

\* One sponsored account; the operator changes min_age_days and the
\* whitelist between the scans, the Judge passes and the reclaims.
NextSettings ==
    \/ Tick
    \/ PruneLog
    \/ \E a \in One : SponsorCreate(a)
    \/ \E a \in One : UserDeposits(a)
    \/ \E a \in One : LedgerCloses(a)
    \/ \E v \in MinAgeChoices : updateJudgmentSetting("min_age_days", v)
    \/ \E a \in One : addToWhitelist(a)
    \/ \E a \in One : removeFromWhitelist(a)
    \/ \E a \in One, dryRun \in BOOLEAN : ReclaimValidate("u1", a, dryRun, FALSE)
    \/ JudgeAllBegin(FALSE)
    \/ ScanBegin(FALSE)
    \/ ReclaimSteps
    \/ JudgeSteps
    \/ ScanSteps

SpecSettings == Init /\ [][NextSettings]_vars

\* --------------------------------------------------- batches of two accounts

\* Two sponsored accounts, scanned and judged, then reclaimed in batches;
\* a rescan between the Judge pass and the batch makes a stored status stale.
NextBatch ==
    \/ Tick
    \/ PruneLog
    \/ \E a \in Addr : SponsorCreate(a)
    \/ ScanBegin(FALSE)
    \/ JudgeAllBegin(FALSE)
    \/ \E dryRun \in BOOLEAN : BatchBegin(dryRun, FALSE)
    \/ \E a \in Addr, dryRun \in BOOLEAN : ReclaimValidate("b", a, dryRun, FALSE)
    \/ ReclaimWork
    \/ BatchCollect
    \/ BatchReturn
    \/ JudgeSteps
    \/ ScanSteps

SpecBatch == Init /\ [][NextBatch]_vars

\* ------------------------------------------------- the Judge on its own

\* Balances around each threshold of the chain: nothing, the fee and one
\* lamport more, the rent floors, the tolerance bound and one lamport more,
\* a user's deposit.
JudgedBalances ==
    {0, TX_FEE_LAMPORTS, TX_FEE_LAMPORTS + 1,
     DEFAULT_RENT_EXEMPT_MINIMUM, RENT_MINIMUM,
     (TOLERANCE_NUM * RENT_MINIMUM) \div TOLERANCE_DEN,
     (TOLERANCE_NUM * RENT_MINIMUM) \div TOLERANCE_DEN + 1,
     RENT_MINIMUM + UserDeposit}

\* Rent floors the Scanner stores: the ledger's, or its default.
JudgedRents == {DEFAULT_RENT_EXEMPT_MINIMUM, RENT_MINIMUM}

\* Days since lastActivity when the first run is made.
JudgedAges == {0, DEFAULT_MIN_AGE_DAYS, 2 * DEFAULT_MIN_AGE_DAYS}

\* min_age_days as the operator may have set it, or the default.
JudgedMinAges == MinAgeChoices \cup {DEFAULT_MIN_AGE_DAYS}

\* The arguments of judgeAccount: a stored record, the settings, the whitelist.
JudgeArguments ==
    {[address |-> "a1",
      account |-> [status |-> "ACTIVE", balance |-> b, rentExemptMin |-> r,
                   lastActivity |-> 0 - age, detectedAt |-> 0 - age],
      settings |-> [minAgeDays |-> m, dryRunMode |-> TRUE],
      whitelist |-> wl,
      runs |-> <<>>] :
        b \in JudgedBalances, r \in JudgedRents, age \in JudgedAges,
        m \in JudgedMinAges, wl \in {{}, {"a1"}}}

InitJudge ==
    /\ now = 0
    /\ ticks = 0
    /\ chain = [a \in Addr |-> 0]
    /\ born = [a \in Addr |-> Absent]
    /\ hasKey = FALSE
    /\ accounts = [a \in Addr |-> NoRecord]
    /\ log = <<>>
    /\ settings = [k \in {"min_age_days", "dry_run_mode"} |-> Absent]
    /\ whitelist = {}
    /\ rc = [c \in Callers |-> IdleCall]
    /\ bt = IdleBatch
    /\ ja = IdleJudge
    /\ sc = IdleScan
    /\ jc \in JudgeArguments
    /\ kr = NoKeyRuns
    /\ ge = NoList

\* One call of judgeAccount on the arguments, at the present time.
JudgeRun ==
    /\ jc.account # NoRecord
    /\ Len(jc.runs) < MaxRuns
    /\ jc' = [jc EXCEPT !.runs =
                 Append(@, [t |-> now,
                            result |-> judgeAccount(jc.address, jc.account, jc.settings,
                                                    jc.whitelist, now)])]
    /\ UNCHANGED <<now, ticks, ledgerVars, hasKey, storeVars, rc, bt, ja, sc, kr, ge>>

NextJudge ==
    \/ JudgeRun
    \/ Tick

SpecJudge == InitJudge /\ [][NextJudge]_vars

\* ------------------------------------- a Judge pass during a real reclaim

\* The operator starts judgeAllAccounts while a reclaimAccount call in real
\* mode is at an await, or the other way round.  Scans run alone.
NextOverlap ==
    \/ Tick
    \/ PruneLog
    \/ \E a \in One : SponsorCreate(a)
    \/ \E a \in One : ReclaimValidate("u1", a, FALSE, TRUE)
    \/ JudgeAllBegin(TRUE)
    \/ ScanBegin(FALSE)
    \/ ReclaimSteps
    \/ JudgeSteps
    \/ ScanSteps

SpecOverlap == Init /\ [][NextOverlap]_vars

\* ------------------------------------------------- an account left idle

\* Ages beyond the horizon are all the same to the Judge.
Horizon == 2 * DEFAULT_MIN_AGE_DAYS

\* A timestamp, one clock jump older, seen from a clock that stays at the
\* horizon.
Older(t) == IF t = Absent THEN Absent ELSE Max(0, t - DEFAULT_MIN_AGE_DAYS)

\* The clock jumps, without end: once at the horizon it stays there and
\* every stored date moves back instead.
TimePasses ==
    /\ Quiet
    /\ IF now < Horizon
       THEN /\ now' = now + DEFAULT_MIN_AGE_DAYS
            /\ UNCHANGED <<born, accounts>>
       ELSE /\ now' = now
            /\ born' = [a \in Addr |-> Older(born[a])]
            /\ accounts' = [a \in Addr |->
                  IF accounts[a] = NoRecord THEN NoRecord
                  ELSE [accounts[a] EXCEPT !.lastActivity = Older(@),
                                           !.detectedAt = Older(@)]]
    /\ UNCHANGED <<ticks, chain, hasKey, log, settings, whitelist, rc, bt, ja, sc, jc, kr, ge>>

\* The operator has set min_age_days to twice the default.
InitIdle ==
    /\ now = 0
    /\ ticks = 0
    /\ chain = [a \in Addr |-> 0]
    /\ born = [a \in Addr |-> Absent]
    /\ hasKey \in BOOLEAN
    /\ accounts = [a \in Addr |-> NoRecord]
    /\ log = <<>>
    /\ settings = [k \in {"min_age_days", "dry_run_mode"} |->
                      IF k = "min_age_days" THEN Horizon ELSE Absent]
    /\ whitelist = {}
    /\ rc = [c \in Callers |-> IdleCall]
    /\ bt = IdleBatch
    /\ ja = IdleJudge
    /\ sc = IdleScan
    /\ jc = NoJudgeCalls
    /\ kr = NoKeyRuns
    /\ ge = NoList

\* An account created and then left alone on the ledger, scanned and judged
\* again and again as time passes.
NextIdle ==
    \/ TimePasses
    \/ PruneLog
    \/ \E a \in One : SponsorCreate(a)
    \/ ScanBegin(FALSE)
    \/ JudgeAllBegin(FALSE)
    \/ ScanSteps
    \/ JudgeSteps

\* Time passes; the operator keeps running Judge passes, and the store ends
\* up answering them; a scan that has started runs to its end.  Nothing
\* obliges the Scanner to run or to stay away.
FairIdle ==
    /\ SF_vars(TimePasses)
    /\ SF_vars(JudgeAllBegin(FALSE) /\ ja'.pc # "threw")
    /\ SF_vars(JudgeAllStep /\ ja'.pc # "threw")
    /\ WF_vars(JudgeAllReturn)
    /\ WF_vars(ScanSteps)

SpecIdle == InitIdle /\ [][NextIdle]_vars /\ FairIdle

\* ------------------------------------------------- what a call may touch

\* getEligibleAccounts: load the settings, the whitelist and the rows that
\* are not RECLAIMED, judge each row, return the ELIGIBLE verdicts.
getEligibleAccounts ==
    /\ Quiet
    /\ \/ ge' = [pc |-> "returned",
                 eligible |->
                     {[address |-> a,
                       potentialRecovery |->
                           judgeAccount(a, accounts[a], JudgmentSettings(settings),
                                        whitelist, now).potentialRecovery] :
                         a \in {x \in JudgedRows :
                                  judgeAccount(x, accounts[x], JudgmentSettings(settings),
                                               whitelist, now).status = "ELIGIBLE"}}]
       \/ \* a store read throws
          ge' = [pc |-> "threw", eligible |-> {}]
    /\ UNCHANGED <<now, ticks, ledgerVars, hasKey, storeVars, rc, bt, ja, sc, jc, kr>>

\* The caller of getEligibleAccounts has its list.
GetEligibleReturn ==
    /\ ge.pc # "idle"
    /\ ge' = NoList
    /\ UNCHANGED <<now, ticks, ledgerVars, hasKey, storeVars, rc, bt, ja, sc, jc, kr>>

\* The arguments of the judgeAccount calls made on their own.
FrameArguments ==
    {[address |-> "a1",
      account |-> [status |-> "ACTIVE", balance |-> RENT_MINIMUM,
                   rentExemptMin |-> RENT_MINIMUM, lastActivity |-> 0, detectedAt |-> 0],
      settings |-> [minAgeDays |-> DEFAULT_MIN_AGE_DAYS, dryRunMode |-> TRUE],
      whitelist |-> {},
      runs |-> <<>>]}

InitFrame ==
    /\ now = 0
    /\ ticks = 0
    /\ chain = [a \in Addr |-> 0]
    /\ born = [a \in Addr |-> Absent]
    /\ hasKey = TRUE
    /\ accounts = [a \in Addr |-> NoRecord]
    /\ log = <<>>
    /\ settings = [k \in {"min_age_days", "dry_run_mode"} |-> Absent]
    /\ whitelist = {}
    /\ rc = [c \in Callers |-> IdleCall]
    /\ bt = IdleBatch
    /\ ja = IdleJudge
    /\ sc = IdleScan
    /\ jc \in FrameArguments
    /\ kr = NoKeyRuns
    /\ ge = NoList

\* Two accounts, scanned; reclaimAccount is called on either,
\* getEligibleAccounts and judgeAccount (once) are called between handlers.
NextFrame ==
    \/ Tick
    \/ PruneLog
    \/ \E a \in Addr : SponsorCreate(a)
    \/ \E a \in Addr, dryRun \in BOOLEAN : ReclaimValidate("u1", a, dryRun, FALSE)
    \/ ScanBegin(FALSE)
    \/ getEligibleAccounts
    \/ GetEligibleReturn
    \/ Quiet /\ jc.runs = <<>> /\ JudgeRun
    \/ ReclaimSteps
    \/ ScanSteps

SpecFrame == InitFrame /\ [][NextFrame]_vars

\* ------------------------------------------------------------ the demo data

\* The day of the seeding, counted from the oldest date it writes.
SeedDay == 140

\* daysAgo(days), on the day of the seeding.
daysAgo(days) == SeedDay - days

\* A row of the createMany of seedDemoData, amounts in lamports.
SeedRow(address, balance, activity, status, detected) ==
    [address |-> address,
     account |-> [status |-> status, balance |-> balance, rentExemptMin |-> RENT_MINIMUM,
                  lastActivity |-> daysAgo(activity), detectedAt |-> daysAgo(detected)]]

\* The 14 rows seedDemoData (and the seed script) create.
SeedRows ==
    {SeedRow("Whale1", 850000000, 92, "ELIGIBLE", 120),
     SeedRow("MidTr1", 52000000, 48, "ELIGIBLE", 65),
     SeedRow("MidTr2", 48000000, 55, "ELIGIBLE", 70),
     SeedRow("Dust01", RENT_MINIMUM, 45, "ELIGIBLE", 60),
     SeedRow("Dust02", RENT_MINIMUM, 67, "ELIGIBLE", 85),
     SeedRow("Dust03", RENT_MINIMUM, 52, "ELIGIBLE", 72),
     SeedRow("Dust04", RENT_MINIMUM, 38, "ELIGIBLE", 50),
     SeedRow("Dust05", RENT_MINIMUM, 72, "ELIGIBLE", 95),
     SeedRow("Dust06", RENT_MINIMUM, 41, "ELIGIBLE", 55),
     SeedRow("Prot01", 1250000000, 3, "PROTECTED", 28),
     SeedRow("Prot02", 420000000, 7, "PROTECTED", 35),
     SeedRow("Actv01", RENT_MINIMUM, 12, "ACTIVE", 18),
     SeedRow("Actv02", RENT_MINIMUM, 8, "ACTIVE", 14),
     SeedRow("Rclm01", 0, 95, "RECLAIMED", 140)}

\* The whitelist entry of the seed script.
SeedWhitelist == {"WhLst1"}

\* The settings of the seed script: min_age_days '30', dry_run_mode 'true'.
SeedSettings ==
    [k \in {"min_age_days", "dry_run_mode"} |->
        IF k = "min_age_days" THEN DEFAULT_MIN_AGE_DAYS ELSE 1]

\* judgeAccount called on a seeded row, with the seeded settings and whitelist.
SeedArguments ==
    {[address |-> row.address, account |-> row.account,
      settings |-> JudgmentSettings(SeedSettings), whitelist |-> SeedWhitelist,
      runs |-> <<>>] : row \in SeedRows}

\* The store as seedDemoData leaves it, one of its rows in hand.
InitSeed ==
    /\ now = SeedDay
    /\ ticks = 0
    /\ chain = [a \in Addr |-> 0]
    /\ born = [a \in Addr |-> Absent]
    /\ hasKey = FALSE
    /\ accounts = [a \in Addr |-> NoRecord]
    /\ log = <<SeedEntry>>
    /\ settings = SeedSettings
    /\ whitelist = SeedWhitelist
    /\ rc = [c \in Callers |-> IdleCall]
    /\ bt = IdleBatch
    /\ ja = IdleJudge
    /\ sc = IdleScan
    /\ jc \in SeedArguments
    /\ kr = NoKeyRuns
    /\ ge = NoList

\* The Judge is run on the row, at once or after the clock has jumped.
NextSeed ==
    \/ JudgeRun
    \/ Tick

SpecSeed == InitSeed /\ [][NextSeed]_vars

\* ------------------------------------------------- the signing credential

\* Values of OPERATOR_PRIVATE_KEY: two secret keys in base58, and a string
\* that is no secret key.
Keys == {"k1", "k2", "malformed"}

\* Keypair.fromSecretKey(bs58.decode(key)) returns a keypair.
DecodesToKeypair(key) == key # "malformed"

\* A decoding error whose message quotes the string it could not decode.
DecodeError_Echo(key) == key

\* error.message of the decoding that throws
DecodeError(key) == "bad secret key size"

\* txSignature: the signature the keypair puts on the transfer.
Signature(key) == IF key = "k1" THEN "sig1" ELSE "sig2"

\* getClientSafeConfig, in a deployment with the credential key.
getClientSafeConfig(key) ==
    [isMockMode |-> key = "", rpcUrl |-> "devnet", operatorPublicKey |-> "operator",
     txFeeSol |-> TX_FEE_LAMPORTS]

\* What the store and the ledger answer to one call: the balance the ledger
\* reports, and whether each awaited call returns (TRUE) or throws.
Answers ==
    [balance : {0, TX_FEE_LAMPORTS, RENT_MINIMUM},
     getBalance : BOOLEAN, send : BOOLEAN, update : BOOLEAN,
     create : BOOLEAN, catchCreate : BOOLEAN]

\* The outcome of a call: its result (none when the error escaped), the
\* entries it appended and whether it marked the record RECLAIMED.
Outcome(returned, result, entries, marked) ==
    [returned |-> returned, result |-> result, entries |-> entries, marked |-> marked]

\* The catch block, entered with the error text.
CatchBlock(a, dryRun, text, env, marked) ==
    IF env.catchCreate
    THEN Outcome(TRUE, Failure(Mode(dryRun), text),
                 <<LogEntry("SKIP", a, 0, Mode(dryRun), "none", text)>>, marked)
    ELSE Outcome(FALSE, NoResult, <<>>, marked)

\* reclaimAccount(a, dryRun) on a stored record of RENT_MINIMUM lamports that
\* the Judge gives the verdict status, with the credential key configured and
\* the store and the ledger answering env.
reclaimAccountUnder(key, a, dryRun, status, env) ==
    LET judgment == [status |-> status, balance |-> RENT_MINIMUM,
                     potentialRecovery |-> RENT_MINIMUM - TX_FEE_LAMPORTS]
        transferAmount == TransferAmount(env.balance)
    IN
    IF ~IsEligible(judgment)
    THEN IF env.create
         THEN Outcome(TRUE, Failure(Mode(dryRun), status),
                      <<SkipEntry(a, judgment, dryRun, judgment)>>, FALSE)
         ELSE CatchBlock(a, dryRun, "Error", env, FALSE)
    ELSE IF dryRun
    THEN IF env.create
         THEN Outcome(TRUE, Success("SIMULATION", judgment.potentialRecovery, "none"),
                      <<SimulationEntry(a, judgment)>>, FALSE)
         ELSE CatchBlock(a, dryRun, "Error", env, FALSE)
    ELSE IF key = ""
    THEN Outcome(TRUE, Failure("SIMULATION", "NO_PRIVATE_KEY"), <<>>, FALSE)
    ELSE IF ~DecodesToKeypair(key)
    THEN CatchBlock(a, dryRun, DecodeError(key), env, FALSE)
    ELSE IF ~env.getBalance
    THEN CatchBlock(a, dryRun, "Error", env, FALSE)
    ELSE IF env.balance = 0
    THEN IF env.update
         THEN Outcome(TRUE, Success("REAL", 0, "none"), <<>>, TRUE)
         ELSE CatchBlock(a, dryRun, "Error", env, FALSE)
    ELSE IF TooLowForFee(transferAmount)
    THEN Outcome(TRUE, Failure("REAL", "INSUFFICIENT_BALANCE"), <<>>, FALSE)
    ELSE IF ~env.send \/ ~env.update
    THEN CatchBlock(a, dryRun, "Error", env, FALSE)
    ELSE IF ~env.create
    THEN CatchBlock(a, dryRun, "Error", env, TRUE)
    ELSE Outcome(TRUE, Success("REAL", transferAmount, Signature(key)),
                 <<LogEntry("RECLAIM", a, transferAmount, "REAL", Signature(key), "Success")>>,
                 TRUE)

\* Two deployments that differ in the credential only, given the same call
\* and the same answers.
KeyRunArguments ==
    [keys : Keys \X Keys, dryRun : BOOLEAN, status : {"ELIGIBLE", "ACTIVE"},
     answers : Answers, outcomes : {<<>>}]

InitSecret ==
    /\ now = 0
    /\ ticks = 0
    /\ chain = [a \in Addr |-> 0]
    /\ born = [a \in Addr |-> Absent]
    /\ hasKey = TRUE
    /\ accounts = [a \in Addr |-> NoRecord]
    /\ log = <<>>
    /\ settings = [k \in {"min_age_days", "dry_run_mode"} |-> Absent]
    /\ whitelist = {}
    /\ rc = [c \in Callers |-> IdleCall]
    /\ bt = IdleBatch
    /\ ja = IdleJudge
    /\ sc = IdleScan
    /\ jc = NoJudgeCalls
    /\ kr \in KeyRunArguments
    /\ ge = NoList

\* The same call is made in both deployments.
KeyRuns ==
    /\ kr.keys # <<>>
    /\ kr.outcomes = <<>>
    /\ kr' = [kr EXCEPT !.outcomes =
                 [i \in 1..2 |->
                     reclaimAccountUnder(kr.keys[i], "a1", kr.dryRun, kr.status, kr.answers)]]
    /\ UNCHANGED <<now, ticks, ledgerVars, hasKey, storeVars, rc, bt, ja, sc, jc, ge>>

NextSecret == KeyRuns

SpecSecret == InitSecret /\ [][NextSecret]_vars

\* ------------------------------------------------------------------ claims

\* reclaimAccount calls that have run to their end.
Ended == {c \in Callers : rc[c].pc \in {"done", "threw"}}

HasReclaimEntry(entries, mode) ==
    \E i \in 1..Len(entries) : entries[i].action = "RECLAIM" /\ entries[i].mode = mode

\* C1: a reclaimAccount call in real mode submits its transfer only if the
\* balance the ledger holds at submission is at most rentExemptMin * 1.01,
\* also when the ledger balance has grown since the last scan.
C1_ProtectedAtSubmission ==
    \A c \in Callers :
        rc[c].submitted =>
            ~UserFundCheckFails(rc[c].submitBal, rc[c].found.rentExemptMin)

\* C2: RECLAIMED is terminal: no step of scan, judgeAll, reclaimOne,
\* reclaimBatch or addToWhitelist takes a RECLAIMED record to another status.
C2_ReclaimedIsTerminal ==
    [][\A a \in Addr :
          accounts[a].status = "RECLAIMED" => accounts'[a].status = "RECLAIMED"]_vars

\* C3: of two real-mode reclaimAccount calls for the same ELIGIBLE address
\* that interleave at their awaits, at most one reaches the submission of
\* the ledger transfer.
C3_AtMostOneSubmits ==
    \A c1, c2 \in Callers :
        ( /\ c1 # c2
          /\ rc[c1].addr = rc[c2].addr
          /\ ~rc[c1].dryRun /\ ~rc[c2].dryRun
          /\ rc[c1].found.status = "ELIGIBLE"
          /\ rc[c2].found.status = "ELIGIBLE" )
        => ~(rc[c1].submitted /\ rc[c2].submitted)

\* Ended calls whose recomputed verdict is not ELIGIBLE.
NotEligibleCalls == {c \in Ended : rc[c].verdict \notin {"NONE", "ELIGIBLE"}}

\* The frame of a skipped call: no RECLAIM entry, no transfer, record as it was.
SkipFrame(r) ==
    /\ \A i \in 1..Len(r.logged) : r.logged[i].action # "RECLAIM"
    /\ ~r.submitted
    /\ ~r.marked
    /\ accounts[r.addr] = r.found

\* The skip on verdict itself: one SKIP entry, failure with the verdict's kind.
SkippedOnVerdict(r) ==
    /\ r.pc = "done"
    /\ Len(r.logged) = 1
    /\ r.logged[1].action = "SKIP"
    /\ r.logged[1].reason = r.verdict
    /\ r.logged[1].mode = Mode(r.dryRun)
    /\ r.result = Failure(Mode(r.dryRun), r.verdict)

\* The catch block's outcome: one SKIP entry with the error text and failure
\* with that text, or the error escapes and nothing is appended.
HandledAsError(r) ==
    \/ /\ r.pc = "done"
       /\ r.result = Failure(Mode(r.dryRun), "Error")
       /\ r.logged = <<ErrorEntry(r.addr, r.dryRun)>>
    \/ /\ r.pc = "threw"
       /\ r.logged = <<>>

\* C4 as stated: a call whose recomputed verdict is not ELIGIBLE appends
\* exactly one SKIP entry and no RECLAIM entry, submits no transfer, leaves
\* the record unchanged and returns failure with the verdict's kind, in both
\* modes and whatever the stored status.
C4_SkipOnVerdict ==
    \A c \in NotEligibleCalls : SkipFrame(rc[c]) /\ SkippedOnVerdict(rc[c])

\* C4 as the code has it: such a call appends no RECLAIM entry, submits no
\* transfer and leaves the record unchanged; it appends exactly one SKIP entry
\* and returns failure with the verdict's kind unless the append of that entry
\* throws, and then the error is handled as any other error of reclaimAccount.
C4_SkipOnVerdictUnlessAppendThrows ==
    \A c \in NotEligibleCalls :
        /\ SkipFrame(rc[c])
        /\ SkippedOnVerdict(rc[c]) \/ HandledAsError(rc[c])

C4_Witness ==
    \E c \in NotEligibleCalls :
        /\ rc[c].verdict = "PROTECTED"
        /\ rc[c].found.status = "ACTIVE"
        /\ ~rc[c].dryRun
        /\ SkippedOnVerdict(rc[c])

\* C5: a record whose stored status is RECLAIMED is never re-included:
\* reclaimAllEligible never selects it, and reclaimAccount on its address never
\* submits a transfer and never returns success, whatever its stored balance
\* and lastActivity.
C5_ReclaimedNeverReincluded ==
    \A c \in Callers :
        rc[c].found.status = "RECLAIMED" =>
            /\ c # "b"
            /\ ~rc[c].submitted
            /\ ~(rc[c].pc = "done" /\ rc[c].result.success)

\* reclaimAccount calls made in dry-run mode, alone or by reclaimAllEligible.
DryRunCalls == {c \in Callers : rc[c].pc # "idle" /\ rc[c].dryRun}

\* A dry-run call never waits on the ledger and never transfers.
DryRunFrame(r) ==
    /\ r.pc \in {"done", "threw"}
    /\ ~r.submitted
    /\ ~r.marked

\* A step taken by a dry-run call, or by reclaimAllEligible in dry-run mode.
DryRunStep ==
    \/ \E c \in Callers : rc'[c] # rc[c] /\ rc'[c].pc # "idle" /\ rc'[c].dryRun
    \/ bt' # bt /\ bt'.pc # "idle" /\ bt'.dryRun

\* Such a step leaves every record and the ledger as they were.
DryRunWritesNothing == DryRunStep => accounts' = accounts /\ chain' = chain

\* The simulated reclaim: one RECLAIM entry in SIMULATION mode for the
\* verdict's potentialRecovery, success with that amount and no transaction.
Simulated(r) ==
    /\ r.pc = "done"
    /\ Len(r.logged) = 1
    /\ r.logged[1].action = "RECLAIM"
    /\ r.logged[1].mode = "SIMULATION"
    /\ r.logged[1].amount = r.recovery
    /\ r.logged[1].tx = "none"
    /\ r.result = Success("SIMULATION", r.recovery, "none")

\* C6 as stated: with dryRun = true, reclaimAccount and reclaimAllEligible
\* never call the ledger and never change a record; for an ELIGIBLE verdict
\* the only store effect is one RECLAIM entry in SIMULATION mode whose amount
\* is the verdict's potentialRecovery, and the call returns success with that
\* amount and no transaction id.
C6_DryRunIsInert ==
    /\ [](\A c \in DryRunCalls :
            /\ DryRunFrame(rc[c])
            /\ rc[c].verdict = "ELIGIBLE" => Simulated(rc[c]))
    /\ [][DryRunWritesNothing]_vars

\* C6 as the code has it: the same, except that when the append of the
\* SIMULATION entry throws the call is handled as any other error of
\* reclaimAccount (one SKIP entry with the error text and failure, or the
\* error escapes).
C6_DryRunIsInertUnlessAppendThrows ==
    /\ [](\A c \in DryRunCalls :
            /\ DryRunFrame(rc[c])
            /\ rc[c].verdict = "ELIGIBLE" => Simulated(rc[c]) \/ HandledAsError(rc[c]))
    /\ [][DryRunWritesNothing]_vars

C6_Witness ==
    \E c \in DryRunCalls :
        /\ rc[c].verdict = "ELIGIBLE"
        /\ Simulated(rc[c])
        /\ rc[c].recovery = RENT_MINIMUM - TX_FEE_LAMPORTS
        /\ chain[rc[c].addr] > 0

\* C7: without a signing credential no operation submits a ledger transfer,
\* and reclaimAccount with dryRun = false on an account judged ELIGIBLE
\* returns failure NO_PRIVATE_KEY without contacting the ledger and without
\* changing the record.
C7_NoKeyNoTransfer ==
    ~hasKey =>
        \A c \in Callers :
            /\ rc[c].pc \notin {"getbal", "send", "mark"}
            /\ ~rc[c].submitted
            /\ ~rc[c].marked
            /\ (c \in Ended /\ ~rc[c].dryRun /\ rc[c].verdict = "ELIGIBLE") =>
                  /\ rc[c].pc = "done"
                  /\ rc[c].result = Failure("SIMULATION", "NO_PRIVATE_KEY")
                  /\ rc[c].logged = <<>>
                  /\ accounts[rc[c].addr] = rc[c].found

C7_Witness ==
    /\ ~hasKey
    /\ \E c \in Ended :
          /\ ~rc[c].dryRun
          /\ rc[c].verdict = "ELIGIBLE"
          /\ rc[c].result.error = "NO_PRIVATE_KEY"
          /\ chain[rc[c].addr] > 0

\* C8: marking and logging are atomic per attempt: a reclaimAccount call sets
\* the status RECLAIMED if and only if that same call appends a RECLAIM entry
\* of real mode, on every path (the already-empty path, a store failure
\* between the two writes).
C8_MarkedIffLogged ==
    \A c \in Ended : rc[c].marked <=> HasReclaimEntry(rc[c].logged, "REAL")

\* C9: every call of reclaimAccount that returns a result, whatever the
\* outcome (success, skip on verdict, ACCOUNT_NOT_FOUND, NO_PRIVATE_KEY,
\* INSUFFICIENT_BALANCE, already empty, caught error), has appended exactly
\* one Activity Log entry.
C9_OneEntryPerCall ==
    \A c \in Callers : rc[c].pc = "done" => Len(rc[c].logged) = 1

\* C10: the Scanner sets a record RECLAIMED, by update or by create, only
\* when the ledger holds nothing at the address: a failed ledger state query
\* never makes a record RECLAIMED.
C10_ReclaimedOnlyOnReportedZero ==
    [][\A a \in Addr :
          ( /\ sc.pc = "reconcile"
            /\ sc'.pc = "reconcile"
            /\ accounts'[a] # accounts[a]
            /\ accounts[a].status # "RECLAIMED"
            /\ accounts'[a].status = "RECLAIMED" )
          => chain[a] = 0]_vars

\* The runs of judgeAccount made on the arguments of jc.
JudgeRuns == {jc.runs[i] : i \in 1..Len(jc.runs)}

\* The four checks in the design's words, on the arguments of jc at time t.
Unprofitable == jc.account.balance <= TX_FEE_LAMPORTS
HoldsUserFunds ==
    TOLERANCE_DEN * jc.account.balance > TOLERANCE_NUM * jc.account.rentExemptMin
YoungerThanMinAge(t) == (t - jc.account.lastActivity) < jc.settings.minAgeDays
Listed == jc.address \in jc.whitelist

\* C11: balance <= transactionFee implies verdict SKIP with
\* potentialRecovery = 0, whatever the settings and the whitelist: an
\* unprofitable whitelisted account is SKIP, not WHITELISTED.
C11_UnprofitableIsSkip ==
    \A run \in JudgeRuns :
        Unprofitable =>
            run.result.status = "SKIP" /\ run.result.potentialRecovery = 0

C11_Witness ==
    \E run \in JudgeRuns :
        /\ jc.account.balance = TX_FEE_LAMPORTS
        /\ Listed
        /\ ~YoungerThanMinAge(run.t)
        /\ run.result.status = "SKIP"

\* C12: balance > rentExemptMin * 1.01 implies verdict PROTECTED, whatever
\* the age and the whitelist.
C12_UserFundsAreProtected ==
    \A run \in JudgeRuns :
        HoldsUserFunds => run.result.status = "PROTECTED"

C12_Witness ==
    \E run \in JudgeRuns :
        /\ jc.account.balance = RENT_MINIMUM + UserDeposit
        /\ jc.account.rentExemptMin = RENT_MINIMUM
        /\ Listed
        /\ ~YoungerThanMinAge(run.t)
        /\ run.result.status = "PROTECTED"

\* C13: the verdict is that of the first failing check in the order profit
\* (SKIP), user funds (PROTECTED), age (ACTIVE), whitelist (WHITELISTED): an
\* account younger than minAgeDays that is neither SKIP nor PROTECTED is
\* ACTIVE even if whitelisted, and a whitelisted account that passes checks
\* 1-3 is WHITELISTED.
C13_FirstFailingCheckDecides ==
    \A run \in JudgeRuns :
        IF Unprofitable THEN run.result.status = "SKIP"
        ELSE IF HoldsUserFunds THEN run.result.status = "PROTECTED"
        ELSE IF YoungerThanMinAge(run.t) THEN run.result.status = "ACTIVE"
        ELSE IF Listed THEN run.result.status = "WHITELISTED"
        ELSE TRUE

\* C14: the verdict is ELIGIBLE if and only if all four checks pass, and
\* then potentialRecovery = max(0, balance - transactionFee).
C14_EligibleIffAllPass ==
    \A run \in JudgeRuns :
        /\ run.result.status = "ELIGIBLE" <=>
              ( /\ ~Unprofitable
                /\ ~HoldsUserFunds
                /\ ~YoungerThanMinAge(run.t)
                /\ ~Listed )
        /\ run.result.status = "ELIGIBLE" =>
              run.result.potentialRecovery = Max(0, jc.account.balance - TX_FEE_LAMPORTS)

C16_ConfirmedIsReclaimed ==
    \A c \in Ended :
        rc[c].confirmed =>
            /\ rc[c].pc = "done"
            /\ rc[c].result = Success("REAL", rc[c].amt, "tx")
            /\ rc[c].logged = <<LogEntry("RECLAIM", rc[c].addr, rc[c].amt, "REAL", "tx", "Success")>>
            /\ accounts[rc[c].addr].status = "RECLAIMED"
            /\ accounts[rc[c].addr].balance = 0

\* A call that went through its catch block and returned.
ReturnedError(r) == r.pc = "done" /\ r.result.error = "Error"

\* The catch block did its work: failure returned, one SKIP entry with the
\* error text appended.
CaughtAndLogged(r) ==
    /\ ~r.result.success
    /\ Len(SelectSeq(r.logged, LAMBDA e : e.action = "SKIP" /\ e.reason = "Error")) = 1

\* A failed transfer submission leaves status and balance as they were.
FailedSendKeepsRecord(r) ==
    (r.pc = "done" /\ r.submitted /\ ~r.confirmed) =>
        /\ accounts[r.addr].status = r.found.status
        /\ accounts[r.addr].balance = r.found.balance

\* C17: any error raised at any step of reclaimAccount is caught: no error
\* leaves the call, the call returns failure and appends one SKIP entry with
\* the error text, and after a failed transfer submission the record's status
\* and balance are unchanged.
C17_ErrorsAreCaught ==
    \A c \in Callers :
        /\ rc[c].pc # "threw"
        /\ ReturnedError(rc[c]) => CaughtAndLogged(rc[c])
        /\ FailedSendKeepsRecord(rc[c])

\* reclaimAllEligible has loaded its rows and has not returned a result:
\* an error left it.
BatchAborted == bt.pc = "threw" /\ bt.selected # <<>>

\* C18: one account's failure does not abort the batch: whatever fails while
\* one ELIGIBLE account is processed, every remaining one is still attempted
\* and reclaimAllEligible returns its result.
C18_FailureDoesNotAbortBatch ==
    /\ ~BatchAborted
    /\ bt.pc = "done" => Len(bt.results) = Len(bt.selected)

\* The sum of f over the indices 1..n.
RECURSIVE SumTo(_, _)
SumTo(f, n) == IF n = 0 THEN 0 ELSE f[n] + SumTo(f, n - 1)

\* Amounts of the successful results of the batch.
SuccessfulAmounts ==
    [i \in 1..Len(bt.results) |->
        IF bt.results[i].success THEN bt.results[i].amount ELSE 0]

\* potentialRecovery of the rows the batch selected.
SelectedRecoveries ==
    [i \in 1..Len(bt.selected) |-> Max(0, bt.selected[i].balance - TX_FEE_LAMPORTS)]

\* The counters of a returned batch agree with its results.
BatchAccounts ==
    /\ bt.total = Len(bt.selected)
    /\ Len(bt.results) = bt.total
    /\ \A i \in 1..bt.total : bt.results[i].address = bt.selected[i].address
    /\ bt.successful + bt.failed = bt.total
    /\ bt.successful = Cardinality({i \in 1..bt.total : bt.results[i].success})
    /\ bt.totalReclaimed = SumTo(SuccessfulAmounts, bt.total)

\* C19: reclaimAllEligible ends after calling reclaimAccount exactly once,
\* one call at a time, for each record that was ELIGIBLE when it started, with
\* successful + failed = total = the number of those records and
\* totalReclaimed = the sum of the amounts of the successful results.
C19_BatchCallsEachOnce ==
    /\ ~BatchAborted
    /\ bt.pc = "loop" =>
          /\ Len(bt.results) + Len(bt.queue) = bt.total
          /\ rc["b"].pc # "idle" => rc["b"].addr = Head(bt.queue)
    /\ bt.pc = "done" => BatchAccounts

\* C20 as stated: a simulation-mode batch over N records with stored status
\* ELIGIBLE returns successful = N, failed = 0 and totalReclaimed = the sum
\* of those records' potentialRecovery.
C20_SimulatedBatchSucceeds ==
    (bt.pc \in {"done", "threw"} /\ bt.dryRun /\ bt.selected # <<>>) =>
        /\ bt.pc = "done"
        /\ bt.successful = bt.total
        /\ bt.failed = 0
        /\ bt.totalReclaimed = SumTo(SelectedRecoveries, bt.total)

\* Every selected record was judged ELIGIBLE afresh and no store call failed.
AllFreshlyEligible ==
    \A i \in 1..Len(bt.results) :
        bt.results[i].error \notin {"SKIP", "PROTECTED", "ACTIVE", "WHITELISTED", "Error"}

\* C20 as the code has it: a simulation-mode batch that returns counts as
\* successful exactly the selected records whose fresh verdict is ELIGIBLE and
\* whose log entry is appended, each for its potentialRecovery; the others
\* fail with the fresh verdict's kind or the error.  When every fresh verdict
\* is ELIGIBLE and no store call fails, successful = N, failed = 0 and
\* totalReclaimed is the sum of the potentialRecovery of the N records.
C20_SimulatedBatchCountsFreshVerdicts ==
    (bt.pc = "done" /\ bt.dryRun) =>
        /\ BatchAccounts
        /\ \A i \in 1..bt.total :
              IF bt.results[i].success
              THEN bt.results[i].amount = SelectedRecoveries[i]
              ELSE bt.results[i].error \in {"SKIP", "PROTECTED", "ACTIVE", "WHITELISTED", "Error"}
        /\ AllFreshlyEligible =>
              /\ bt.successful = bt.total
              /\ bt.failed = 0
              /\ bt.totalReclaimed = SumTo(SelectedRecoveries, bt.total)

C20_Witness ==
    /\ bt.pc = "done"
    /\ bt.dryRun
    /\ bt.total = 2
    /\ bt.successful = 2
    /\ bt.failed = 0
    /\ bt.totalReclaimed = 2 * (RENT_MINIMUM - TX_FEE_LAMPORTS)

\* ------------------------------------------------------------ Scanner claims

\* The addresses still waiting in the reconciliation loop.
ScanQueued == {sc.queue[i] : i \in 1..Len(sc.queue)}

\* The running scan has written the row of a: created it or refreshed it.
Reconciled(a) ==
    /\ accounts[a] # NoRecord
    /\ \/ accounts[a].detectedAt = now
       \/ accounts[a].lastActivity = now

\* C21: a transaction of the signature page whose fetch or parse fails is
\* skipped and does not abort the scan: the accounts of every other
\* transaction of the page are reconciled into the store, and the scan fails
\* only for another reason (the history fetch, the store).
C21_FailedTransactionsAreSkipped ==
    /\ sc.pc = "reconcile" =>
          /\ ScanQueued \subseteq sc.page \ sc.failed
          /\ \A a \in (sc.page \ sc.failed) \ ScanQueued : Reconciled(a)
    /\ (sc.pc = "done" /\ sc.success) =>
          \A a \in sc.page \ sc.failed : Reconciled(a)
    /\ (sc.pc = "done" /\ ~sc.success) => sc.error \in {"history", "store", "log", "count"}

C21_Witness ==
    /\ sc.pc = "done"
    /\ sc.success
    /\ sc.failed = {"a1"}
    /\ sc.page = {"a1", "a2"}
    /\ accounts["a1"] = NoRecord
    /\ Reconciled("a2")

\* C22: a scan that fails unrecoverably (the history fetch fails, or a store
\* or ledger error escapes during reconciliation) returns a failure and
\* leaves the account records exactly as they were before the run, whether
\* scanForSponsoredAccounts was called on its own or by POST /api/scan.
C22_FailedScanLeavesStore ==
    (sc.pc = "done" /\ ~sc.success) => accounts = sc.before

\* C23: every scan that completes successfully has appended exactly one SCAN
\* entry, a scan of an empty signature page included.
C23_OneScanEntryPerRun ==
    (sc.pc = "done" /\ sc.success) => sc.logged = 1

\* The initial classification the ledger's state of a calls for.
InitialStatusOnLedger(a) ==
    IF chain[a] = 0 THEN "RECLAIMED"
    ELSE IF INITIAL_DEN * chain[a] > INITIAL_NUM * RENT_MINIMUM THEN "PROTECTED"
    ELSE "ACTIVE"

\* C24: a record the Scanner creates gets status RECLAIMED when the current
\* ledger balance is zero or the account is absent, PROTECTED when the
\* balance exceeds rentExemptMin x 1.5 and ACTIVE otherwise; the Scanner
\* never creates a record with status ELIGIBLE, SKIP or WHITELISTED.
C24_InitialStatusFollowsLedger ==
    [][\A a \in Addr :
          (accounts[a] = NoRecord /\ accounts'[a] # NoRecord) =>
              /\ accounts'[a].status = InitialStatusOnLedger(a)
              /\ accounts'[a].status \notin {"ELIGIBLE", "SKIP", "WHITELISTED"}]_vars

\* -------------------------------------------------- Judge pass and settings

\* What the pass that has just ended must have left of the row it found.
Judged(a, before) ==
    IF before = NoRecord \/ before.status = "RECLAIMED"
    THEN before
    ELSE [before EXCEPT !.status =
            judgeAccount(a, before, JudgmentSettings(settings), whitelist, now).status]

\* C25: when judgeAllAccounts has completed, every record that was not
\* RECLAIMED at its start has the status the Judge gives it under the current
\* settings and whitelist, the RECLAIMED records are untouched, no other
\* field of any record has changed, and the five counts add up to total.
C25_JudgeAllPersistsVerdicts ==
    ja.pc = "done" =>
        /\ \A a \in Addr : accounts[a] = Judged(a, ja.snap[a])
        /\ ja.total = Cardinality({a \in Addr : ja.snap[a] # NoRecord
                                                /\ ja.snap[a].status # "RECLAIMED"})
        /\ ja.counts["ELIGIBLE"] + ja.counts["PROTECTED"] + ja.counts["ACTIVE"]
             + ja.counts["SKIP"] + ja.counts["WHITELISTED"] = ja.total

C25_Witness ==
    /\ ja.pc = "done"
    /\ ja.total = 1
    /\ settings["min_age_days"] # Absent
    /\ ja.snap["a1"].status = "ACTIVE"
    /\ accounts["a1"].status = "WHITELISTED"

\* The record passes the profit and the user fund checks.
PassesFundChecks(account) ==
    /\ ~ProfitCheckFails(account.balance)
    /\ ~UserFundCheckFails(account.balance, account.rentExemptMin)

\* C26: once min_age_days is set to v (an integer v >= 0), the next Judge
\* evaluation uses exactly v as the idle threshold: in reclaimAccount and
\* in judgeAllAccounts a record that passes the fund checks is ACTIVE
\* exactly when it has been idle for less than v days, so a record stored
\* ELIGIBLE that is younger than the new v is refused with error ACTIVE.
C26_NewThresholdIsUsed ==
    settings["min_age_days"] # Absent =>
        /\ \A c \in Callers :
              (rc[c].pc = "done" /\ rc[c].found # NoRecord /\ PassesFundChecks(rc[c].found)) =>
                  (rc[c].verdict = "ACTIVE"
                      <=> now - rc[c].found.lastActivity < settings["min_age_days"])
        /\ ja.pc = "done" =>
              \A a \in Addr :
                  (/\ ja.snap[a] # NoRecord
                   /\ ja.snap[a].status # "RECLAIMED"
                   /\ PassesFundChecks(ja.snap[a])) =>
                      (accounts[a].status = "ACTIVE"
                          <=> now - ja.snap[a].lastActivity < settings["min_age_days"])

\* POST /api/scan is on its real branch: it has deleted the rows and scans
\* the ledger.
ScansForReal == sc.route /\ sc.pc \in {"posted", "reconcile"}

\* C27: dry_run_mode is safe by default: while the setting is absent from
\* the store every consumer of it behaves as in simulation mode: the
\* reclaim entry point (isDryRunEnabled), the Judge settings loader and the
\* scan entry point.
C27_AbsentSettingMeansSimulation ==
    settings["dry_run_mode"] = Absent =>
        /\ isDryRunEnabled
        /\ JudgmentSettings(settings).dryRunMode
        /\ ~ScansForReal

\* ---------------------------------------------------------------- statistics

\* The amount entry i of the log adds to the recovered total.
RecoveredBy(i) ==
    IF log[i].action = "RECLAIM" /\ log[i].mode = "REAL" THEN log[i].amount ELSE 0

\* What the stored row of a adds to the potential recovery.
PotentialOf(a) ==
    IF accounts[a] # NoRecord /\ accounts[a].status = "ELIGIBLE"
    THEN Max(0, accounts[a].balance - TX_FEE_LAMPORTS)
    ELSE 0

\* A simulation-mode step leaves totalRecovered as it was.
DryRunKeepsTotal ==
    DryRunStep => getReclaimStats'.totalRecovered = getReclaimStats.totalRecovered

CoreStep == <<rc, bt, ja, sc>>' # <<rc, bt, ja, sc>>

\* Every entry of the log is still there, in its place, after the step.
LogExtended ==
    /\ Len(log') >= Len(log)
    /\ SubSeq(log', 1, Len(log)) = log

KeepsDetectedAt ==
    \A a \in Addr :
        (accounts[a] # NoRecord /\ accounts'[a] # NoRecord) =>
            accounts'[a].detectedAt = accounts[a].detectedAt

\* The scan that has ended left the detectedAt of the rows it found.
ScanKeptDetectedAt ==
    sc.pc = "done" =>
        \A a \in Addr :
            (sc.before[a] # NoRecord /\ accounts[a] # NoRecord) =>
                accounts[a].detectedAt = sc.before[a].detectedAt

\* C30: detectedAt is immutable: once an address has a record, no later
\* scan (scanForSponsoredAccounts on its own or through POST /api/scan),
\* Judge pass or reclaim changes the detectedAt of that address.
C30_DetectedAtIsImmutable ==
    /\ []ScanKeptDetectedAt
    /\ [][KeepsDetectedAt]_vars

\* ------------------------------------------------- one account's failure

\* Rows judgeAllAccounts loaded and gave up: the failing one and those after it.
JudgeAbandoned == IF ja.pc = "threw" THEN Len(ja.queue) ELSE 0

\* Addresses the scan discovered and left without a row when the store failed.
ScanAbandoned ==
    IF sc.pc = "done" /\ sc.error = "store"
    THEN Cardinality({a \in sc.page \ sc.failed : accounts[a] = NoRecord})
    ELSE 0

\* C31: a failure while one account is scanned or judged blocks no other
\* account: when the store update or the ledger query of one account fails
\* in judgeAllAccounts or in the Scanner's reconciliation loop, every other
\* account of the run is still evaluated and persisted, so at most the
\* failing account is given up.
C31_FailureBlocksNoOtherAccount ==
    /\ JudgeAbandoned <= 1
    /\ ScanAbandoned <= 1

\* ---------------------------------------------------------- the credential

\* What a deployment shows of a call: its result without the transaction
\* identifier, and the entries it appended without theirs.
Observable(o) ==
    [returned |-> o.returned,
     result |-> IF o.returned THEN [o.result EXCEPT !.tx = "none"] ELSE o.result,
     entries |-> [i \in 1..Len(o.entries) |-> [o.entries[i] EXCEPT !.tx = "none"]],
     marked |-> o.marked]

\* The texts a deployment shows: of the result, of the entries, of the
\* client-safe configuration.
ShownTexts(key, o) ==
    (IF o.returned THEN {o.result.mode, o.result.error, o.result.tx} ELSE {})
        \cup {o.entries[i].reason : i \in 1..Len(o.entries)}
        \cup {o.entries[i].tx : i \in 1..Len(o.entries)}
        \cup {o.entries[i].action : i \in 1..Len(o.entries)}
        \cup {getClientSafeConfig(key).rpcUrl, getClientSafeConfig(key).operatorPublicKey}

CredentialIsNotShown ==
    \A i \in 1..2 : kr.keys[i] \notin ShownTexts(kr.keys[i], kr.outcomes[i])

ReportedNothingToTransfer(c) ==
    /\ rc[c].pc = "getbal"
    /\ rc'[c].bal # Absent
    /\ rc'[c].bal <= TX_FEE_LAMPORTS

NoTransfer(c) == ~rc'[c].submitted /\ chain' = chain

MarkedAlreadyEmpty(c) ==
    /\ rc'[c].pc = "done"
    /\ rc'[c].result = Success("REAL", 0, "none")
    /\ accounts'[rc[c].addr].status = "RECLAIMED"
    /\ accounts'[rc[c].addr].balance = 0

RefusedForFee(c) ==
    /\ rc'[c].pc = "done"
    /\ rc'[c].result = Failure("REAL", "INSUFFICIENT_BALANCE")
    /\ accounts' = accounts
    /\ log' = log

LowBalanceExits ==
    \A c \in Callers :
        ReportedNothingToTransfer(c) =>
            /\ NoTransfer(c)
            /\ IF rc'[c].bal = 0 THEN MarkedAlreadyEmpty(c) ELSE RefusedForFee(c)

EmptyMarkThrew(c) ==
    /\ rc'[c].bal = 0
    /\ accounts' = accounts
    /\ \/ rc'[c].pc = "threw" /\ log' = log
       \/ /\ rc'[c].pc = "done"
          /\ rc'[c].result = Failure("REAL", "Error")
          /\ log' = Append(log, ErrorEntry(rc[c].addr, FALSE))

LowBalanceExitsOrThrows ==
    \A c \in Callers :
        ReportedNothingToTransfer(c) =>
            /\ NoTransfer(c)
            /\ IF rc'[c].bal = 0
               THEN MarkedAlreadyEmpty(c) \/ EmptyMarkThrew(c)
               ELSE RefusedForFee(c)

C33_WitnessEmpty ==
    \E c \in Callers :
        /\ rc[c].pc = "done"
        /\ rc[c].bal = 0
        /\ rc[c].result = Success("REAL", 0, "none")
        /\ accounts[rc[c].addr].status = "RECLAIMED"

\* ------------------------------------------- Judge pass against a reclaim

\* A turn of the loop of judgeAllAccounts leaves every RECLAIMED status.
JudgeKeepsReclaimed ==
    (ja.pc = "loop" /\ ja' # ja) =>
        \A a \in Addr :
            (accounts[a] # NoRecord /\ accounts[a].status = "RECLAIMED")
                => accounts'[a].status = "RECLAIMED"

\* C34: when judgeAllAccounts and a real-mode reclaimAccount interleave at
\* their awaits, judgeAllAccounts never overwrites a status that
\* reclaimAccount set to RECLAIMED after judgeAllAccounts loaded its rows.
C34_JudgeAllKeepsReclaimed == [][JudgeKeepsReclaimed]_vars

\* The transfer is confirmed and recorded, and the record of the emptied
\* account says ELIGIBLE.
C34_ReclaimedStoredEligible ==
    \E i \in 1..Len(log) :
        /\ log[i].action = "RECLAIM"
        /\ log[i].mode = "REAL"
        /\ accounts[log[i].account].status = "ELIGIBLE"
        /\ chain[log[i].account] = TX_FEE_LAMPORTS

\* ------------------------------------------------------------ idle accounts

\* Address a is at its rent floor on the ledger, not whitelisted, and has a
\* record the Judge passes over.
Idle(a) ==
    /\ chain[a] = RENT_MINIMUM
    /\ a \notin whitelist
    /\ accounts[a] # NoRecord
    /\ accounts[a].status # "RECLAIMED"
    /\ accounts[a].balance = RENT_MINIMUM

\* C35: an account that is not whitelisted and whose ledger balance stays
\* at its rent floor eventually gets the verdict ELIGIBLE from
\* judgeAllAccounts, however often the Scanner scans it again.
C35_IdleEventuallyEligible ==
    \A a \in Addr : Idle(a) ~> (accounts[a] # NoRecord /\ accounts[a].status = "ELIGIBLE")

\* The same, said of one scan: the update of a record whose balance has not
\* changed leaves its lastActivity.
RescanKeepsIdleClock ==
    \A a \in Addr :
        (/\ sc.pc = "reconcile"
         /\ accounts[a] # NoRecord
         /\ accounts'[a] # accounts[a]
         /\ accounts'[a].balance = accounts[a].balance)
            => accounts'[a].lastActivity = accounts[a].lastActivity

C35_RescanKeepsIdleClock == [][RescanKeepsIdleClock]_vars

\* The same, a record that a failed ledger query turned RECLAIMED set aside.
C35_IdleEventuallyEligibleOrReclaimed ==
    \A a \in Addr : Idle(a) ~> (accounts[a] # NoRecord /\ accounts[a].status \in {"ELIGIBLE", "RECLAIMED"})

\* ------------------------------------------------------- reclaimed records

\* C36: in every reachable state a record with status RECLAIMED has stored
\* balance 0; a Scanner update of a RECLAIMED record never stores another.
C36_ReclaimedHasNoBalance ==
    \A a \in Addr :
        (accounts[a] # NoRecord /\ accounts[a].status = "RECLAIMED")
            => accounts[a].balance = 0

\* The Scanner's update of a RECLAIMED record stores balance 0.
ScanKeepsReclaimedEmpty ==
    \A a \in Addr :
        (/\ sc.pc = "reconcile"
         /\ accounts[a] # NoRecord
         /\ accounts[a].status = "RECLAIMED"
         /\ accounts'[a] # accounts[a])
            => accounts'[a].balance = 0

C36_ScanKeepsReclaimedEmpty == [][ScanKeepsReclaimedEmpty]_vars

\* ------------------------------------------------------------------ frames

\* The address of the call that caller c's step belongs to.
CalledAddress(c) == IF rc[c].pc = "idle" THEN rc'[c].addr ELSE rc[c].addr

\* A step of a reclaimAccount call, its return to the caller aside.
ReclaimStepOf(c) == rc'[c] # rc[c] /\ rc[c].pc \notin {"done", "threw"}

ReclaimTouchesItsRecordOnly ==
    \A c \in Callers :
        ReclaimStepOf(c) =>
            \A a \in Addr \ {CalledAddress(c)} : accounts'[a] = accounts[a]

ReadersWriteNothing ==
    (ge' # ge \/ jc' # jc) => UNCHANGED storeVars

\* C37: reclaimAccount(address) modifies no account record other than that
\* of address, whatever its outcome; judgeAccount and getEligibleAccounts
\* write nothing to the store.
C37_FrameOfReclaimAndReaders ==
    [][ReclaimTouchesItsRecordOnly /\ ReadersWriteNothing]_vars

\* A real reclaim of a1 is done and recorded while the record of a2 stands
\* as the scan left it; getEligibleAccounts has returned verdicts and
\* judgeAccount has been called.
C37_Witness ==
    /\ log # <<>>
    /\ log[Len(log)] = LogEntry("RECLAIM", "a1", RENT_MINIMUM - TX_FEE_LAMPORTS, "REAL", "tx",
                                "Success")
    /\ accounts["a1"].status = "RECLAIMED"
    /\ accounts["a2"] # NoRecord
    /\ accounts["a2"].status = "ACTIVE"
    /\ accounts["a2"].balance = RENT_MINIMUM
    /\ ge.pc = "returned"
    /\ ge.eligible # {}
    /\ jc.runs # <<>>

\* ------------------------------------------------------------ the demo data

\* The runs of judgeAccount made on the day of the seeding.
RunsOnSeedDay == {run \in JudgeRuns : run.t = SeedDay}

\* The seeded rows stored ELIGIBLE that judgeAccount finds ELIGIBLE on the
\* day of the seeding: those a simulated batch succeeds on.
SeedBatchSuccesses ==
    {row \in SeedRows :
        /\ row.account.status = "ELIGIBLE"
        /\ judgeAccount(row.address, row.account, JudgmentSettings(SeedSettings),
                        SeedWhitelist, SeedDay).status = "ELIGIBLE"}

\* C38: right after seedDemoData, with min_age_days = 30 and the seeded
\* whitelist, judgeAccount gives every row seeded ELIGIBLE, PROTECTED or
\* ACTIVE the status it is stored with, so that a simulated batch succeeds
\* on all 9 rows seeded ELIGIBLE.
C38_SeedAgreesWithJudge ==
    \A run \in RunsOnSeedDay :
        /\ jc.account.status \in {"ELIGIBLE", "PROTECTED", "ACTIVE"}
               => run.result.status = jc.account.status
        /\ Cardinality(SeedBatchSuccesses) = 9

\* The rows seeded at the rent floor, and those seeded PROTECTED or ACTIVE,
\* are stored with the status judgeAccount gives them.
C38_DustAgreesWithJudge ==
    \A run \in RunsOnSeedDay :
        (/\ jc.account.status \in {"ELIGIBLE", "PROTECTED", "ACTIVE"}
         /\ jc.account.balance = RENT_MINIMUM \/ jc.account.status # "ELIGIBLE")
            => run.result.status = jc.account.status

====
